---- MODULE Spec2Model ----
(***************************************************************************)
(* A model of shenwei356/stable: the text table with buffered rendering    *)
(* (Render) and streaming emission (Writer / AddRow / Flush).              *)
(*                                                                         *)
(* A string is a sequence of characters; a character is a one-element     *)
(* TLA+ string.  "W" stands for a wide East-Asian rune (3 bytes in UTF-8,  *)
(* 2 display cells); every other character is 1 byte and 1 cell, except   *)
(* the newline, which has display width 0.  The code measures with len()   *)
(* (bytes) in checkWidths and formatRow and with runewidth (cells) in      *)
(* formatCell, so both measures are modelled.                              *)
(***************************************************************************)
EXTENDS Integers, Sequences, FiniteSets, TLC

VARIABLES t, sink, fatal, accepted, emitted, nCalls

vars == <<t, sink, fatal, accepted, emitted, nCalls>>

(***************************************************************************)
(* Bounds of the model.                                                    *)
(***************************************************************************)
\* the number of rows a run adds successfully
MaxRows == 3
\* the number of MinWidth, MaxWidth, ClipCell and Render calls made on a
\* table after its construction
MaxCalls == 1
\* the number of Flush calls of a run
MaxFlush == 2

(***************************************************************************)
(* Integers: Go's int, narrowed to IntBits bits so that the overflow of    *)
(* math.MaxInt + 2*len(padding) is computable; every other quantity of the *)
(* model is far below the limit.                                           *)
(***************************************************************************)
IntBits == 16

MaxInt == 2 ^ (IntBits - 1) - 1

WrapInt(x) == ((x + 2 ^ (IntBits - 1)) % (2 ^ IntBits)) - 2 ^ (IntBits - 1)

\* the floor of a column's maximum width
MinMaxWidth == 5

(***************************************************************************)
(* Strings.                                                                *)
(***************************************************************************)
\* utf8.RuneLen
RuneLen(c) == IF c = "W" THEN 3 ELSE 1

\* runewidth.RuneWidth
RuneWidth(c) == IF c = "W" THEN 2 ELSE IF c = "\n" THEN 0 ELSE 1

RECURSIVE len(_)
len(s) == IF s = <<>> THEN 0 ELSE RuneLen(Head(s)) + len(Tail(s))

RECURSIVE StringWidth(_)
StringWidth(s) == IF s = <<>> THEN 0 ELSE RuneWidth(Head(s)) + StringWidth(Tail(s))

\* s[0:n] and s[n:] for a byte offset n on a rune boundary
RECURSIVE SliceTo(_, _)
SliceTo(s, n) ==
    IF s = <<>> \/ n < RuneLen(Head(s)) THEN <<>>
    ELSE <<Head(s)>> \o SliceTo(Tail(s), n - RuneLen(Head(s)))

RECURSIVE SliceFrom(_, _)
SliceFrom(s, n) ==
    IF s = <<>> \/ n < RuneLen(Head(s)) THEN s
    ELSE SliceFrom(Tail(s), n - RuneLen(Head(s)))

\* strings.Repeat for a count the runtime accepts
RECURSIVE Repeat(_, _)
Repeat(s, n) == IF n <= 0 THEN <<>> ELSE s \o Repeat(s, n - 1)

\* strings.Repeat panics on a negative count; a non-empty string repeated
\* about math.MaxInt times cannot be allocated
RepeatFails(s, n) == n < 0 \/ (s # <<>> /\ n > MaxInt \div 2)

\* strings.Join
RECURSIVE Join(_, _)
Join(ss, sep) ==
    IF ss = <<>> THEN <<>>
    ELSE IF Len(ss) = 1 THEN ss[1]
    ELSE ss[1] \o sep \o Join(Tail(ss), sep)

\* runewidth.Truncate: the longest prefix that leaves room for the tail
RECURSIVE TruncPrefix(_, _)
TruncPrefix(s, w) ==
    IF s = <<>> \/ RuneWidth(Head(s)) > w THEN <<>>
    ELSE <<Head(s)>> \o TruncPrefix(Tail(s), w - RuneWidth(Head(s)))

Truncate(s, w, tail) ==
    IF StringWidth(s) <= w THEN s
    ELSE TruncPrefix(s, w - StringWidth(tail)) \o tail

Max(a, b) == IF a > b THEN a ELSE b

(***************************************************************************)
(* Panics.  A panic ends the program: no operation follows it.             *)
(***************************************************************************)
NoPanic == "none"
PanicCut == "attempted to cut character"
PanicCell == "wrapping/clipping method error, please contact the author"
PanicIndex == "index out of range"
PanicRepeat == "strings: negative Repeat count"
PanicNilWriter == "nil pointer dereference"

(***************************************************************************)
(* Styles (TableStyle, LineStyle, RowStyle) and the presets used here.     *)
(***************************************************************************)
LineStyle(b, h, s, e) == [Begin |-> b, Hline |-> h, Sep |-> s, End |-> e]

RowStyle(b, s, e) == [Begin |-> b, Sep |-> s, End |-> e]

NoLine == LineStyle(<<>>, <<>>, <<>>, <<>>)

Visible(s) == s.Begin # <<>> \/ s.Hline # <<>> \/ s.Sep # <<>> \/ s.End # <<>>

StylePlain ==
    [Name |-> "plain",
     LineTop |-> NoLine, LineBelowHeader |-> NoLine,
     LineBetweenRows |-> NoLine, LineBottom |-> NoLine,
     HeaderRow |-> RowStyle(<<>>, <<" ", " ", " ">>, <<>>),
     DataRow |-> RowStyle(<<>>, <<" ", " ", " ">>, <<>>),
     Padding |-> <<>>]

StyleGrid ==
    [Name |-> "grid",
     LineTop |-> LineStyle(<<"+">>, <<"-">>, <<"+">>, <<"+">>),
     LineBelowHeader |-> LineStyle(<<"+">>, <<"=">>, <<"+">>, <<"+">>),
     LineBetweenRows |-> LineStyle(<<"+">>, <<"-">>, <<"+">>, <<"+">>),
     LineBottom |-> LineStyle(<<"+">>, <<"-">>, <<"+">>, <<"+">>),
     HeaderRow |-> RowStyle(<<"|">>, <<"|">>, <<"|">>),
     DataRow |-> RowStyle(<<"|">>, <<"|">>, <<"|">>),
     Padding |-> <<" ">>]

(***************************************************************************)
(* Align, Column and the Table.                                            *)
(***************************************************************************)
AlignLeft == 1

AlignCenter == 2

AlignRight == 3

Column(h, a, mn, mx) == [Header |-> h, Align |-> a, MinWidth |-> mn, MaxWidth |-> mx]

\* New(): the zero Table with the plain style.  columnsNil and sliceNil tell a
\* nil slice from an empty one; rotateLen is -1 for a nil t.rotate; poolMin is
\* the length of the shortest row buffer ever put into t.poolSlice (MaxInt:
\* none); wrapDelimiter "" is the zero rune; bufRows is 0 without a writer.
New ==
    [rows |-> <<>>, columns |-> <<>>, columnsNil |-> TRUE, nColumns |-> 0,
     dataAdded |-> FALSE, hasHeader |-> FALSE,
     minWidths |-> <<>>, maxWidths |-> <<>>, widthsChecked |-> FALSE,
     align |-> 0, minWidth |-> 0, maxWidth |-> 0, wrapDelimiter |-> "",
     clipCell |-> FALSE, clipMark |-> <<>>,
     slice |-> <<>>, sliceNil |-> TRUE, rotateLen |-> -1, poolMin |-> MaxInt,
     style |-> StylePlain,
     hasWriter |-> FALSE, bufRows |-> 0, bufRowsDumped |-> FALSE, flushed |-> FALSE]

(***************************************************************************)
(* checkWidths: the minimum and maximum width of each column.              *)
(***************************************************************************)
\* the header (when there is one) and the buffered cells of column i
ColumnCells(tb, i) ==
    (IF tb.hasHeader THEN {tb.columns[i].Header} ELSE {})
        \cup {tb.rows[j][i] : j \in 1..Len(tb.rows)}

\* the largest and the smallest of a set of lengths, from an initial value
MaxOf(L, init) == IF L = {} THEN init ELSE CHOOSE m \in L : \A x \in L : x <= m

MinOf(L, init) == IF L = {} THEN init ELSE CHOOSE m \in L : \A x \in L : m <= x

\* the folds of lines 1572-1595, from the initial values 0 and math.MaxInt
FoldMax(tb, i) == MaxOf({len(c) : c \in ColumnCells(tb, i)}, 0)

FoldMin(tb, i) == MinOf({len(c) : c \in ColumnCells(tb, i)}, MaxInt)

\* a user defined threshold, used when it is set
Lower(m, threshold) == IF threshold > 0 /\ threshold < m THEN threshold ELSE m

Raise(m, threshold) == IF threshold > 0 /\ threshold > m THEN threshold ELSE m

\* ResolveMax without the floor of line 1605
ResolveMaxNoFloor(tb, i) ==
    Lower(Lower(FoldMax(tb, i), tb.columns[i].MaxWidth), tb.maxWidth)

\* ResolveMax with the global MaxWidth replacing the maximum
ResolveMaxGlobal(tb, i) ==
    IF tb.maxWidth > 0 THEN Max(MinMaxWidth, tb.maxWidth)
    ELSE Max(MinMaxWidth, Lower(FoldMax(tb, i), tb.columns[i].MaxWidth))

\* lines 1598-1607: the column's MaxWidth, the global one, the floor
ResolveMax(tb, i) ==
    Max(MinMaxWidth, Lower(Lower(FoldMax(tb, i), tb.columns[i].MaxWidth), tb.maxWidth))

\* ResolveMin with the global MinWidth only raising the minimum
ResolveMinRaised(tb, i) ==
    Raise(Raise(FoldMin(tb, i), tb.columns[i].MinWidth), tb.minWidth)

\* lines 1609-1614: the column's MinWidth, then the global one
ResolveMin(tb, i) ==
    IF tb.minWidth > 0 THEN tb.minWidth
    ELSE Raise(FoldMin(tb, i), tb.columns[i].MinWidth)
checkWidths(tb) ==
    [tb EXCEPT !.minWidths = [i \in 1..tb.nColumns |-> ResolveMin(tb, i)],
               !.maxWidths = [i \in 1..tb.nColumns |-> ResolveMax(tb, i)],
               !.widthsChecked = TRUE]

\* the width a column is drawn with: M, raised to minWidths[i]
M(tb, i) == IF tb.maxWidths[i] < tb.minWidths[i] THEN tb.minWidths[i] ELSE tb.maxWidths[i]

(***************************************************************************)
(* formatCell: pad a display line to the column width.                     *)
(***************************************************************************)
\* Pad without the test of lines 1383-1385: a line that is too wide is kept
PadLoose(text, pad, a) ==
    IF pad < 0 THEN [s |-> text, fatal |-> NoPanic]
    ELSE IF RepeatFails(<<" ">>, pad) THEN [s |-> <<>>, fatal |-> PanicRepeat]
    ELSE [s |-> CASE a = AlignCenter ->
                       Repeat(<<" ">>, pad \div 2) \o text \o Repeat(<<" ">>, pad - pad \div 2)
                  [] a = AlignRight -> Repeat(<<" ">>, pad) \o text
                  [] OTHER -> text \o Repeat(<<" ">>, pad),
          fatal |-> NoPanic]

\* lines 1382-1398: the padding of a line that fits
Pad(text, pad, a) ==
    IF pad < 0 THEN [s |-> <<>>, fatal |-> PanicCell]
    ELSE IF RepeatFails(<<" ">>, pad) THEN [s |-> <<>>, fatal |-> PanicRepeat]
    ELSE [s |-> CASE a = AlignCenter ->
                       Repeat(<<" ">>, pad \div 2) \o text \o Repeat(<<" ">>, pad - pad \div 2)
                  [] a = AlignRight -> Repeat(<<" ">>, pad) \o text
                  [] OTHER -> text \o Repeat(<<" ">>, pad),
          fatal |-> NoPanic]

\* formatCell with the column's alignment before the global one
formatCellColumnFirst(tb, text, width, align) ==
    Pad(text, width - StringWidth(text), IF align > 0 THEN align ELSE tb.align)

formatCell(tb, text, width, align) ==
    Pad(text, width - StringWidth(text), IF tb.align > 0 THEN tb.align ELSE align)
(***************************************************************************)
(* formatRow: wrap or clip the cells of a row.                             *)
(***************************************************************************)
\* one rune of the wrap loop (lines 1303-1338).  st holds the working line,
\* spacePos (pos, size), lastPos.pos, the lines cut so far and the panic.
\* lines 1312-1333: the working line wl is cut at byte cut
WrapCut(st, line, rest, maxWidth) ==
    IF len(line) > maxWidth
    THEN [st EXCEPT !.fatal = PanicCut]
    ELSE [workingLine |-> rest, spacePos |-> 0, spaceSize |-> 0,
          lastPos |-> len(rest), lines |-> Append(st.lines, line),
          fatal |-> NoPanic]

\* lines 1305-1337, for the working line wl and the last delimiter (sp, sz)
WrapRune(st, wl, sp, sz, maxWidth) ==
    IF len(wl) >= maxWidth
    THEN IF sz > 0 THEN WrapCut(st, SliceTo(wl, sp), SliceFrom(wl, sp), maxWidth)
         ELSE IF len(wl) > maxWidth
         THEN WrapCut(st, SliceTo(wl, st.lastPos), SliceFrom(wl, st.lastPos), maxWidth)
         ELSE WrapCut(st, wl, <<>>, maxWidth)
    ELSE [workingLine |-> wl, spacePos |-> sp, spaceSize |-> sz,
          lastPos |-> len(wl), lines |-> st.lines, fatal |-> NoPanic]

WrapStep(st, r, maxWidth, delim) ==
    IF r = delim
    THEN WrapRune(st, st.workingLine \o <<r>>, len(st.workingLine \o <<r>>), RuneLen(r),
                  maxWidth)
    ELSE WrapRune(st, st.workingLine \o <<r>>, st.spacePos, st.spaceSize, maxWidth)
RECURSIVE WrapLoop(_, _, _, _)
WrapLoop(st, cell, maxWidth, delim) ==
    IF cell = <<>> \/ st.fatal # NoPanic THEN st
    ELSE WrapLoop(WrapStep(st, Head(cell), maxWidth, delim), Tail(cell), maxWidth, delim)

\* WrapEnd without lines 1340-1342: the rest of the working line is lost
WrapEndLost(st) == [lines |-> st.lines, fatal |-> st.fatal]

\* lines 1340-1342: the rest of the working line is the last display line
WrapEnd(st) ==
    [lines |-> IF st.workingLine # <<>> THEN Append(st.lines, st.workingLine)
               ELSE st.lines,
     fatal |-> st.fatal]

\* the display lines of a cell that is wrapped (lines 1297-1342)
WrapCell(cell, maxWidth, delim) ==
    WrapEnd(WrapLoop([workingLine |-> <<>>, spacePos |-> 0, spaceSize |-> 0,
                      lastPos |-> 0, lines |-> <<>>, fatal |-> NoPanic],
                     cell, maxWidth, delim))

\* lines 1283-1289: the clip mark is dropped when it is longer than maxWidth
ClipMark(mark, maxWidth) == IF len(mark) > maxWidth THEN <<>> ELSE mark

\* t.rotate[i] = append(t.rotate[i], ...) for the display lines of a cell
Rotated(acc, wr) == [acc EXCEPT !.rotate = Append(@, wr.lines), !.fatal = wr.fatal]

\* lines 1269-1342: one cell, for the width maxWidth it is wrapped at
FormatCellAt(tb, cell, i, maxWidth, acc) ==
    IF i > tb.rotateLen
    THEN [acc EXCEPT !.fatal = PanicIndex]
    ELSE IF len(cell) <= maxWidth
    THEN [acc EXCEPT !.rotate = Append(@, <<cell>>)]
    ELSE IF tb.clipCell
    THEN [acc EXCEPT !.rotate = Append(@, <<Truncate(cell, maxWidth,
                                                     ClipMark(acc.clipMark, maxWidth))>>),
                     !.clipMark = ClipMark(acc.clipMark, maxWidth)]
    ELSE Rotated(acc, WrapCell(cell, maxWidth, tb.wrapDelimiter))

\* the loop over the cells (lines 1268-1343), from cell i on.  acc holds
\* t.rotate filled so far, the clip mark (which the clip branch may reset)
\* and the panic.
RECURSIVE FormatCells(_, _, _, _)
FormatCells(tb, row, i, acc) ==
    IF i > Len(row) \/ acc.fatal # NoPanic THEN acc
    ELSE FormatCells(tb, row, i + 1,
             FormatCellAt(tb, row[i], i, Max(tb.maxWidths[i], tb.minWidth), acc))
\* the rotation of t.rotate into printed lines (lines 1345-1364)
Rotate(rotate, nColumns) ==
    [j \in 1..MaxOf({Len(rotate[i]) : i \in 1..Len(rotate)}, 0) |->
        [i \in 1..nColumns |-> IF j > Len(rotate[i]) THEN <<>> ELSE rotate[i][j]]]

\* lines 1216-1231: t.rotate is made once, the zero delimiter is the space
Prepare(tb) ==
    [tb EXCEPT !.rotateLen = IF @ = -1 THEN tb.nColumns ELSE @,
               !.wrapDelimiter = IF @ = "" THEN " " ELSE @]

\* lines 1245-1258: is any cell longer than its column
needWrap(tb, row) == \E i \in 1..Len(row) : len(row[i]) > tb.maxWidths[i]

\* lines 1345-1366: row2 is taken from t.poolSlice for each printed line and
\* put back by the caller
Pooled(tb, wrappedRow, poolHit) ==
    IF wrappedRow # <<>> /\ poolHit /\ tb.poolMin < tb.nColumns
    THEN [tb |-> tb, wrapped |-> FALSE, wrappedRow |-> <<>>, fatal |-> PanicIndex]
    ELSE [tb |-> [tb EXCEPT !.poolMin =
                    IF wrappedRow = <<>> \/ (poolHit /\ @ # MaxInt) THEN @
                    ELSE IF tb.nColumns < @ THEN tb.nColumns ELSE @],
          wrapped |-> TRUE, wrappedRow |-> wrappedRow, fatal |-> NoPanic]

\* lines 1262-1366, for the cells acc the loop has left
Wrapped(tb, acc, poolHit) ==
    IF acc.fatal # NoPanic
    THEN [tb |-> [tb EXCEPT !.clipMark = acc.clipMark], wrapped |-> FALSE,
          wrappedRow |-> <<>>, fatal |-> acc.fatal]
    ELSE Pooled([tb EXCEPT !.clipMark = acc.clipMark], Rotate(acc.rotate, tb.nColumns),
                poolHit)

\* lines 1214-1260 done
Prepared(tb, row, poolHit) ==
    IF Len(row) > Len(tb.maxWidths)
    THEN [tb |-> tb, wrapped |-> FALSE, wrappedRow |-> <<>>, fatal |-> PanicIndex]
    ELSE IF ~needWrap(tb, row)
    THEN [tb |-> tb, wrapped |-> FALSE, wrappedRow |-> <<>>, fatal |-> NoPanic]
    ELSE Wrapped(tb, FormatCells(tb, row, 1,
                         [rotate |-> <<>>, clipMark |-> tb.clipMark, fatal |-> NoPanic]),
                 poolHit)

\* formatRow.  poolHit: whether t.poolSlice.Get hands back a pooled buffer (a
\* sync.Pool may drop what it holds at any time); the buffers are put back by
\* the callers right after use, which is folded in here.
formatRow(tb, row, poolHit) == Prepared(Prepare(tb), row, poolHit)
(***************************************************************************)
(* The assembly of output lines.  An emission state ws holds the table     *)
(* (whose scratch slice the lines are joined from), the bytes produced so  *)
(* far and the panic that stopped it.  Render, the two emitting branches   *)
(* of AddRow and Flush repeat the same loops; each loop is modelled once.  *)
(***************************************************************************)
\* slice[i] = cells[i] for i in range t.maxWidths, from index i on; a cell
\* is [s, fatal], the right-hand side being evaluated before the store
RECURSIVE StoreCells(_, _, _)
StoreCells(ws, cells, i) ==
    IF i > Len(cells) \/ ws.fatal # NoPanic THEN ws
    ELSE IF cells[i].fatal # NoPanic THEN [ws EXCEPT !.fatal = cells[i].fatal]
    ELSE IF i > Len(ws.tb.slice) THEN [ws EXCEPT !.fatal = PanicIndex]
    ELSE StoreCells([ws EXCEPT !.tb.slice[i] = cells[i].s], cells, i + 1)

\* Begin + strings.Join(slice, Sep) + End + "\n"
JoinLine(ws, begin, sep, end) ==
    IF ws.fatal # NoPanic THEN ws
    ELSE [ws EXCEPT !.out = @ \o begin \o Join(ws.tb.slice, sep) \o end \o <<"\n">>]

\* strings.Repeat(Hline, n)
Ruled(hline, n) ==
    IF RepeatFails(hline, n) THEN [s |-> <<>>, fatal |-> PanicRepeat]
    ELSE [s |-> Repeat(hline, n), fatal |-> NoPanic]

\* a horizontal line, when its style is visible
HLine(ws, ls, lenPad2) ==
    IF ws.fatal # NoPanic \/ ~Visible(ls) THEN ws
    ELSE JoinLine(StoreCells(ws, [i \in 1..Len(ws.tb.maxWidths) |->
                                     Ruled(ls.Hline, WrapInt(M(ws.tb, i) + lenPad2))], 1),
                  ls.Begin, ls.Sep, ls.End)

\* style.Padding + t.formatCell(...) + style.Padding
Padded(fc, padding) == [s |-> padding \o fc.s \o padding, fatal |-> fc.fatal]

\* one printed line of a header or data row
RowLine(ws, rs, texts, padding) ==
    IF ws.fatal # NoPanic THEN ws
    ELSE JoinLine(StoreCells(ws, [i \in 1..Len(ws.tb.maxWidths) |->
                                     Padded(formatCell(ws.tb, texts[i], M(ws.tb, i),
                                                       ws.tb.columns[i].Align), padding)], 1),
                  rs.Begin, rs.Sep, rs.End)
RECURSIVE RowLines(_, _, _, _)
RowLines(ws, rs, wrappedRow, padding) ==
    IF wrappedRow = <<>> \/ ws.fatal # NoPanic THEN ws
    ELSE RowLines(RowLine(ws, rs, Head(wrappedRow), padding), rs, Tail(wrappedRow), padding)

\* the printed lines of a row formatRow has looked at
Formatted(ws, fr, rs, row, padding) ==
    IF fr.wrapped
    THEN RowLines([ws EXCEPT !.tb = fr.tb, !.fatal = fr.fatal], rs, fr.wrappedRow, padding)
    ELSE RowLine([ws EXCEPT !.tb = fr.tb, !.fatal = fr.fatal], rs, row, padding)

\* a header or data row: formatRow, then its printed lines
WriteRow(ws, rs, row, padding, poolHit) ==
    IF ws.fatal # NoPanic THEN ws
    ELSE Formatted(ws, formatRow(ws.tb, row, poolHit), rs, row, padding)

\* the header row and the line below it
WriteHeader(ws, style, poolHit) ==
    HLine(WriteRow(ws, style.HeaderRow,
                   [i \in 1..ws.tb.nColumns |-> ws.tb.columns[i].Header],
                   style.Padding, poolHit),
          style.LineBelowHeader, len(style.Padding) * 2)

\* the top line
Headed(ws, style, poolHit) ==
    IF ~ws.tb.hasHeader THEN ws ELSE WriteHeader(ws, style, poolHit)

\* the top line, the header and the line below it
WriteHead(ws, style, poolHit) ==
    Headed(HLine(ws, style.LineTop, len(style.Padding) * 2), style, poolHit)
\* the data rows from row j on, each but the first after a line between rows
RECURSIVE WriteRows(_, _, _, _)
WriteRows(ws, style, j, poolHit) ==
    IF j > Len(ws.tb.rows) \/ ws.fatal # NoPanic THEN ws
    ELSE WriteRows(WriteRow(IF j > 1
                            THEN HLine(ws, style.LineBetweenRows, len(style.Padding) * 2)
                            ELSE ws,
                            style.DataRow, ws.tb.rows[j], style.Padding, poolHit),
                   style, j + 1, poolHit)
\* if t.slice == nil { t.slice = make([]string, t.nColumns) }
MakeSlice(tb) ==
    IF tb.sliceNil
    THEN [tb EXCEPT !.slice = [i \in 1..tb.nColumns |-> <<>>], !.sliceNil = FALSE]
    ELSE tb

NilStyle == [StylePlain EXCEPT !.Name = "nil"]

\* style, else the table's, else StyleGrid
UseStyle(tb, style) ==
    LET s1 == IF style.Name = "nil" THEN tb.style ELSE style
    IN  IF s1.Name = "nil" THEN StyleGrid ELSE s1

(***************************************************************************)
(* Render: [tb, out, fatal], the table after the call, the bytes returned  *)
(* and the panic, if any.                                                  *)
(***************************************************************************)
\* lines 1423-1551, for the style in use
RenderWith(tb, style, poolHit) ==
    HLine(WriteRows(WriteHead([tb |-> checkWidths(MakeSlice(tb)), out |-> <<>>,
                               fatal |-> NoPanic],
                              style, poolHit),
                    style, 1, poolHit),
          style.LineBottom, len(style.Padding) * 2)

Render(tb, styleArg, poolHit) == RenderWith(tb, UseStyle(tb, styleArg), poolHit)
(***************************************************************************)
(* Errors.                                                                 *)
(***************************************************************************)
Nil == "nil"
ErrSetHeaderAfterDataAdded == "stable: setting header is not allowed after some data being added"
ErrUnmatchedColumnNumber == "stable: unmatched column number"
ErrAddRowAfterFlush == "stable: calling AddRow is not allowed after calling Flush()"
ErrWriterRepeatedlySet == "stable: writer repeatedly set"
ErrConvert == "can't convert the value"

\* a value convertToString has no text for
BadValue == <<"?">>

(***************************************************************************)
(* Header, HeaderWithFormat.                                               *)
(***************************************************************************)
\* HeaderWithFormat without the test of line 885
HeaderWithFormatAnytime(tb, headers) ==
    [tb |-> [tb EXCEPT !.columns = headers, !.columnsNil = FALSE,
                       !.nColumns = Len(headers), !.hasHeader = TRUE],
     err |-> Nil]

HeaderWithFormat(tb, headers) ==
    IF tb.dataAdded THEN [tb |-> tb, err |-> ErrSetHeaderAfterDataAdded]
    ELSE [tb |-> [tb EXCEPT !.columns = headers, !.columnsNil = FALSE,
                            !.nColumns = Len(headers), !.hasHeader = TRUE],
          err |-> Nil]

Header(tb, headers) ==
    HeaderWithFormat(tb, [i \in 1..Len(headers) |-> Column(headers[i], 0, 0, 0)])

(***************************************************************************)
(* checkRow and parseRow: [tb, err].  The values of the model are strings  *)
(* already, or BadValue.                                                   *)
(***************************************************************************)
parseRow(row) == IF \E i \in 1..Len(row) : row[i] = BadValue THEN ErrConvert ELSE Nil


\* checkRow rejecting only the rows longer than the header
checkRowLong(tb, row) ==
    IF tb.hasHeader \/ ~tb.columnsNil
    THEN [tb |-> tb,
          err |-> IF Len(row) > tb.nColumns THEN ErrUnmatchedColumnNumber ELSE parseRow(row)]
    ELSE [tb |-> [tb EXCEPT !.columns = [i \in 1..Len(row) |-> Column(<<>>, 0, 0, 0)],
                            !.columnsNil = FALSE, !.nColumns = Len(row)],
          err |-> parseRow(row)]

\* checkRow that makes the columns of the first row and leaves nColumns
checkRowUncounted(tb, row) ==
    IF tb.hasHeader \/ ~tb.columnsNil
    THEN [tb |-> tb,
          err |-> IF Len(row) # tb.nColumns THEN ErrUnmatchedColumnNumber ELSE parseRow(row)]
    ELSE [tb |-> [tb EXCEPT !.columns = [i \in 1..Len(row) |-> Column(<<>>, 0, 0, 0)],
                            !.columnsNil = FALSE],
          err |-> parseRow(row)]

checkRow(tb, row) ==
    IF tb.hasHeader \/ ~tb.columnsNil
    THEN [tb |-> tb,
          err |-> IF Len(row) # tb.nColumns THEN ErrUnmatchedColumnNumber ELSE parseRow(row)]
    ELSE [tb |-> [tb EXCEPT !.columns = [i \in 1..Len(row) |-> Column(<<>>, 0, 0, 0)],
                            !.columnsNil = FALSE, !.nColumns = Len(row)],
          err |-> parseRow(row)]

(***************************************************************************)
(* AddRow: [tb, out, err, fatal, wrote]: the table after the call, the     *)
(* bytes written to the writer, the error returned, the panic, and the     *)
(* rows whose lines were written.                                          *)
(***************************************************************************)
\* the test of line 959 off by one
JustBufferEarly(tb) == ~tb.hasWriter \/ Len(tb.rows) < tb.bufRows - 1

\* line 959: the row is only buffered
JustBuffer(tb) == ~tb.hasWriter \/ Len(tb.rows) < tb.bufRows

\* the call returns the error of checkRow
Rejected(cr) ==
    [tb |-> cr.tb, out |-> <<>>, err |-> cr.err, fatal |-> NoPanic, wrote |-> <<>>]

\* lines 958-968
Buffered(cr, row) ==
    IF cr.err # Nil THEN Rejected(cr)
    ELSE [tb |-> [cr.tb EXCEPT !.rows = Append(@, row), !.dataAdded = TRUE],
          out |-> <<>>, err |-> Nil, fatal |-> NoPanic, wrote |-> <<>>]
AddRowBuffer(tb, row) == Buffered(checkRow(tb, row), row)

\* the call returns what the emission state ws has come to
Written(ws, wrote) ==
    [tb |-> ws.tb, out |-> ws.out, err |-> Nil, fatal |-> ws.fatal, wrote |-> wrote]

\* the streamed row without the line between rows
StreamedUnruled(tb, row, style, poolHit) ==
    Written(WriteRow([tb |-> tb, out |-> <<>>, fatal |-> NoPanic],
                     style.DataRow, row, style.Padding, poolHit),
            <<row>>)

\* lines 1000-1054: the line between rows and the row
Streamed(tb, row, style, poolHit) ==
    Written(WriteRow(HLine([tb |-> tb, out |-> <<>>, fatal |-> NoPanic],
                           style.LineBetweenRows, len(style.Padding) * 2),
                     style.DataRow, row, style.Padding, poolHit),
            <<row>>)

\* lines 992-1056: the buffered rows are dumped already
AddRowStream(tb, row, style, poolHit) ==
    IF checkRow(tb, row).err # Nil THEN Rejected(checkRow(tb, row))
    ELSE Streamed(checkRow(tb, row).tb, row, style, poolHit)

\* the dump that leaves t.bufRowsDumped as it was
DumpedUnmarked(r) == r

\* lines 1204-1205
Dumped(r) == [r EXCEPT !.tb.bufRowsDumped = TRUE]

\* lines 1068-1205: the top line, the header and every buffered row
Dump(tb, style, poolHit) ==
    Dumped(Written(WriteRows(WriteHead([tb |-> tb, out |-> <<>>, fatal |-> NoPanic],
                                       style, poolHit),
                             style, 1, poolHit),
                   tb.rows))

\* lines 1064-1205, the widths being resolved
Checked(tb, row, style, poolHit) ==
    IF checkRow(tb, row).err # Nil THEN Rejected(checkRow(tb, row))
    ELSE Dump([checkRow(tb, row).tb EXCEPT !.rows = Append(@, row), !.dataAdded = TRUE],
              style, poolHit)

\* lines 1060-1205: the row after the bufRows buffered ones
AddRowDump(tb, row, style, poolHit) == Checked(checkWidths(tb), row, style, poolHit)
\* AddRow without the test of lines 954-956
AddRowUnguarded(tb, row, poolHit) ==
    LET style == UseStyle(tb, NilStyle)
        t1    == MakeSlice(tb)
    IN  IF JustBuffer(tb) THEN AddRowBuffer(tb, row)
        ELSE IF t1.bufRowsDumped THEN AddRowStream(t1, row, style, poolHit)
        ELSE IF Len(t1.rows) = t1.bufRows THEN AddRowDump(t1, row, style, poolHit)
        ELSE [tb |-> t1, out |-> <<>>, err |-> Nil, fatal |-> NoPanic, wrote |-> <<>>]

AddRow(tb, row, poolHit) ==
    LET style == UseStyle(tb, NilStyle)
        t1    == MakeSlice(tb)
    IN  IF tb.hasWriter /\ tb.flushed
        THEN [tb |-> tb, out |-> <<>>, err |-> ErrAddRowAfterFlush, fatal |-> NoPanic,
              wrote |-> <<>>]
        ELSE IF JustBuffer(tb) THEN AddRowBuffer(tb, row)
        ELSE IF t1.bufRowsDumped THEN AddRowStream(t1, row, style, poolHit)
        ELSE IF Len(t1.rows) = t1.bufRows THEN AddRowDump(t1, row, style, poolHit)
        ELSE [tb |-> t1, out |-> <<>>, err |-> Nil, fatal |-> NoPanic, wrote |-> <<>>]

(***************************************************************************)
(* Writer and Flush.                                                       *)
(***************************************************************************)
\* Writer without the test of lines 1634-1636
WriterAgain(tb, bufRows) ==
    [tb |-> [tb EXCEPT !.hasWriter = TRUE, !.rows = <<>>,
                       !.bufRows = IF bufRows < 1 THEN 1 ELSE bufRows],
     err |-> Nil]

Writer(tb, bufRows) ==
    IF tb.hasWriter THEN [tb |-> tb, err |-> ErrWriterRepeatedlySet]
    ELSE [tb |-> [tb EXCEPT !.hasWriter = TRUE, !.rows = <<>>,
                            !.bufRows = IF bufRows < 1 THEN 1 ELSE bufRows],
          err |-> Nil]

\* lines 1671-1687: only the bottom line is left to write
Bottom(ws) == [tb |-> ws.tb, out |-> ws.out, fatal |-> ws.fatal, wrote |-> <<>>]

\* line 1693: t.writer.Write(t.Render(style))
WriteAll(tb, r) ==
    IF r.fatal # NoPanic
    THEN [tb |-> r.tb, out |-> <<>>, fatal |-> r.fatal, wrote |-> <<>>]
    ELSE IF ~tb.hasWriter
    THEN [tb |-> r.tb, out |-> <<>>, fatal |-> PanicNilWriter, wrote |-> <<>>]
    ELSE [tb |-> r.tb, out |-> r.out, fatal |-> NoPanic, wrote |-> tb.rows]

\* lines 1652-1696, t.flushed being set
Flushing(tb, style, poolHit) ==
    IF tb.bufRowsDumped
    THEN Bottom(HLine([tb |-> tb, out |-> <<>>, fatal |-> NoPanic], style.LineBottom,
                      len(style.Padding) * 2))
    ELSE WriteAll(tb, Render(tb, style, poolHit))

\* Flush: [tb, out, fatal, wrote]
Flush(tb, poolHit) ==
    Flushing(MakeSlice([tb EXCEPT !.flushed = TRUE]), UseStyle(tb, NilStyle), poolHit)
(***************************************************************************)
(* The option setters.                                                     *)
(***************************************************************************)
Style(tb, style) == [tb EXCEPT !.style = style]

Align(tb, a) == [tb EXCEPT !.align = a]

MinWidth(tb, w) ==
    [tb EXCEPT !.minWidth = IF tb.maxWidth > 0 /\ w > tb.maxWidth THEN tb.maxWidth ELSE w]

MaxWidth(tb, w) ==
    [tb EXCEPT !.maxWidth = IF tb.minWidth > 0 /\ w < tb.minWidth THEN tb.minWidth ELSE w]

WrapDelimiter(tb, d) ==
    IF tb.hasWriter /\ tb.dataAdded THEN tb ELSE [tb EXCEPT !.wrapDelimiter = d]

ClipCell(tb, mark) == [tb EXCEPT !.clipCell = TRUE, !.clipMark = mark]

(***************************************************************************)
(* The inputs of the model.                                                *)
(***************************************************************************)
\* "ab": shorter than the floor of 5
CellShort == <<"a", "b">>
\* "ab cdef": 7 bytes, wrapped at the space when the column is narrower
CellLong == <<"a", "b", " ", "c", "d", "e", "f">>
\* two wide runes and a letter: 7 bytes, 5 display cells
CellWide == <<"W", "W", "a">>
\* a space, two wide runes and a letter: 8 bytes, 6 display cells
CellSpaceWide == <<" ", "W", "W", "a">>

\* the tables as constructed: New(), and New().Style(StyleGrid)
Constructed == {New, Style(New, StyleGrid)}

HeaderInputs == {<<CellShort>>}

\* a wrapped header in a column of at most 5, and a column whose MinWidth
\* is above its content
FormatInputs == {<<Column(CellLong, 0, 0, 5), Column(CellShort, AlignRight, 8, 0)>>}

RowInputs ==
    {<<CellShort>>, <<CellLong>>, <<CellSpaceWide>>, <<BadValue>>, <<CellWide, CellShort>>}

BufRowsInputs == {0, 1, 2}

RenderStyleInputs == {NilStyle}

MinWidthInputs == {7}

MaxWidthInputs == {6}

\* a mark that fits every column, and one longer than the narrowest column
ClipMarkInputs == {<<".", ".">>, <<".", ".", ".", ".", ".", ".">>}

(***************************************************************************)
(* The state machine: one table, its writer's sink, and the calls made on  *)
(* it.  accepted lists the rows whose AddRow returned nil, emitted the     *)
(* rows whose lines were written to the sink; nCalls counts the calls and  *)
(* keeps, in preWriter, how many rows were accepted before Writer.         *)
(***************************************************************************)
Init ==
    /\ t \in Constructed
    /\ sink = <<>>
    /\ fatal = NoPanic
    /\ accepted = <<>>
    /\ emitted = <<>>
    /\ nCalls = [calls |-> 0, flushes |-> 0, preWriter |-> 0]

Alive == fatal = NoPanic

\* what t.poolSlice.Get may do: it matters only when the pool holds a buffer
\* shorter than the row
PoolChoices(tb) == IF tb.poolMin < tb.nColumns THEN BOOLEAN ELSE {FALSE}

\* a call that neither writes nor panics
Quiet(tb) ==
    /\ t' = tb
    /\ UNCHANGED <<sink, fatal, accepted, emitted>>

HeaderCall ==
    /\ Alive
    /\ \E h \in HeaderInputs : Quiet(Header(t, h).tb)
    /\ UNCHANGED nCalls

HeaderWithFormatCall ==
    /\ Alive
    /\ \E h \in FormatInputs : Quiet(HeaderWithFormat(t, h).tb)
    /\ UNCHANGED nCalls

WriterCall ==
    /\ Alive
    /\ \E k \in BufRowsInputs : Quiet(Writer(t, k).tb)
    /\ nCalls' = IF t.hasWriter THEN nCalls
                 ELSE [nCalls EXCEPT !.preWriter = Len(accepted)]

\* the writer receives r.out; a row is accepted when AddRow returns nil
Returned(r, row) ==
    /\ t' = r.tb
    /\ sink' = sink \o r.out
    /\ fatal' = r.fatal
    /\ accepted' = IF r.fatal = NoPanic /\ r.err = Nil
                   THEN Append(accepted, row) ELSE accepted
    /\ emitted' = IF r.fatal = NoPanic THEN emitted \o r.wrote ELSE emitted

AddRowCall ==
    /\ Alive
    /\ Len(accepted) < MaxRows
    /\ \E row \in RowInputs, poolHit \in PoolChoices(t) :
         Returned(AddRow(t, row, poolHit), row)
    /\ UNCHANGED nCalls

\* the writer receives r.out
Flushed(r) ==
    /\ t' = r.tb
    /\ sink' = sink \o r.out
    /\ fatal' = r.fatal
    /\ emitted' = IF r.fatal = NoPanic THEN emitted \o r.wrote ELSE emitted

FlushCall ==
    /\ Alive
    /\ nCalls.flushes < MaxFlush
    /\ \E poolHit \in PoolChoices(t) : Flushed(Flush(t, poolHit))
    /\ nCalls' = [nCalls EXCEPT !.flushes = @ + 1]
    /\ UNCHANGED accepted

\* the bytes of Render go to the caller
Rendered(r) ==
    /\ t' = r.tb
    /\ fatal' = r.fatal
RenderCall ==
    /\ Alive
    /\ nCalls.calls < MaxCalls
    /\ \E style \in RenderStyleInputs, poolHit \in PoolChoices(t) :
         Rendered(Render(t, style, poolHit))
    /\ nCalls' = [nCalls EXCEPT !.calls = @ + 1]
    /\ UNCHANGED <<sink, accepted, emitted>>

Setter(tb) ==
    /\ Alive
    /\ nCalls.calls < MaxCalls
    /\ Quiet(tb)
    /\ nCalls' = [nCalls EXCEPT !.calls = @ + 1]

MinWidthCall == \E w \in MinWidthInputs : Setter(MinWidth(t, w))

MaxWidthCall == \E w \in MaxWidthInputs : Setter(MaxWidth(t, w))

ClipCellCall == \E m \in ClipMarkInputs : Setter(ClipCell(t, m))

Next ==
    \/ HeaderCall
    \/ HeaderWithFormatCall
    \/ WriterCall
    \/ AddRowCall
    \/ FlushCall
    \/ RenderCall
    \/ MinWidthCall
    \/ MaxWidthCall
    \/ ClipCellCall

Spec == Init /\ [][Next]_vars


(***************************************************************************)
(* The properties.                                                         *)
(***************************************************************************)

\* the writer was attached before any row was accepted
WriterFirst == t.hasWriter /\ nCalls.preWriter = 0

\* the same table used without streaming: all the accepted rows are buffered
Batch(tb) == [tb EXCEPT !.rows = accepted]

\* C1: when the writer is attached before the rows and at most bufRows rows
\* are added, the bytes in the sink after the AddRow calls and one Flush are
\* the bytes Render returns for the same table, style and rows.
C1_StreamingEqualsRender ==
    [][(/\ ~t.flushed /\ t'.flushed /\ fatal' = NoPanic
        /\ WriterFirst /\ Len(accepted) <= t.bufRows)
       => sink' = Render(Batch(t), NilStyle, FALSE).out]_vars

C1_Witness ==
    /\ Alive /\ t.flushed /\ WriterFirst /\ ~t.bufRowsDumped
    /\ t.hasHeader /\ t.bufRows = 2 /\ Len(accepted) = 2
    /\ sink # <<>>
    /\ emitted = accepted

\* C2: the AddRow that brings the number of buffered rows to bufRows
\* resolves the widths and writes the top rule, the header and the bufRows
\* rows to the sink.
C2_DumpAtThreshold ==
    (Alive /\ WriterFirst /\ ~t.flushed /\ Len(accepted) = t.bufRows)
    => (t.bufRowsDumped /\ t.widthsChecked /\ emitted = accepted /\ sink # <<>>)

\* C3: once the first Flush has returned, every row whose AddRow returned
\* nil is in the sink exactly once, in the order of the calls, wherever the
\* Writer call was placed.
C3_NoRowLostOrDuplicated ==
    (Alive /\ t.flushed /\ nCalls.flushes = 1) => emitted = accepted

\* C4: once the buffered rows are dumped, no call changes minWidths or
\* maxWidths.
C4_WidthsFrozen ==
    [][t.bufRowsDumped
       => (t'.minWidths = t.minWidths /\ t'.maxWidths = t.maxWidths)]_vars

\* the display lines formatRow has made of a row fit the columns of tb
C5_LinesFit(tb, fr, row) ==
    \A i \in 1..Len(row) :
        IF fr.wrapped
        THEN \A j \in 1..Len(fr.wrappedRow) : StringWidth(fr.wrappedRow[j][i]) <= M(tb, i)
        ELSE StringWidth(row[i]) <= M(tb, i)

\* the same for the rows of one call, formatted one after the other
RECURSIVE C5_RowsFit(_, _, _)
C5_FitThen(tb, fr, rows, poolHit) ==
    /\ C5_LinesFit(tb, fr, Head(rows))
    /\ C5_RowsFit(fr.tb, Tail(rows), poolHit)

C5_RowsFit(tb, rows, poolHit) ==
    rows = <<>> \/ C5_FitThen(tb, formatRow(tb, Head(rows), poolHit), rows, poolHit)

\* the header row, when there is one
C5_HeaderRow(tb) ==
    IF tb.hasHeader THEN <<[i \in 1..tb.nColumns |-> tb.columns[i].Header]>> ELSE <<>>

\* the rows an AddRow call writes: none while buffering, the header and all
\* the rows at the threshold, the row itself afterwards
C5_AddRowWrites(tb, row) ==
    IF JustBuffer(tb) THEN <<>>
    ELSE IF tb.bufRowsDumped THEN <<row>>
    ELSE C5_HeaderRow(tb) \o Append(tb.rows, row)

\* the widths an AddRow call writes with: resolved at the threshold
C5_AddRowWidths(tb) ==
    IF ~JustBuffer(tb) /\ ~tb.bufRowsDumped THEN checkWidths(MakeSlice(tb))
    ELSE MakeSlice(tb)

\* the call returns and the row is accepted
C5_Emitted(r) == r.fatal = NoPanic /\ r.err = Nil

\* C5: in every row that Render or a streaming AddRow emits (the call
\* returns), wrapped or clipped, each display line of a cell of column i is
\* at most max(maxWidths[i], minWidths[i]) display cells wide, also for rows
\* added after the threshold with cells wider than the buffered ones.
C5_LineFitsColumn ==
    (Alive /\ ~(t.hasWriter /\ t.flushed)) =>
        \A poolHit \in PoolChoices(t) :
            /\ Render(t, NilStyle, poolHit).fatal = NoPanic
                   => C5_RowsFit(checkWidths(MakeSlice(t)), C5_HeaderRow(t) \o t.rows,
                                 poolHit)
            /\ \A row \in RowInputs :
                   C5_Emitted(AddRow(t, row, poolHit))
                   => C5_RowsFit(C5_AddRowWidths(t), C5_AddRowWrites(t, row), poolHit)

C5_Witness ==
    /\ Alive /\ t.bufRowsDumped /\ ~t.flushed
    /\ accepted = <<<<CellShort>>, <<CellShort>>, <<CellLong>>>>
    /\ emitted = accepted
    /\ t.maxWidths = <<MinMaxWidth>>
    /\ StringWidth(CellLong) > M(t, 1)

\* C6 as stated: after checkWidths, maxWidths[i] >= minWidths[i] >= 0 and
\* maxWidths[i] >= 5 for every column.
C6_WidthsOrdered ==
    t.widthsChecked =>
        \A i \in 1..Len(t.maxWidths) :
            /\ t.maxWidths[i] >= t.minWidths[i]
            /\ t.minWidths[i] >= 0
            /\ t.maxWidths[i] >= MinMaxWidth

\* C6 amended: after checkWidths, minWidths[i] >= 0 and maxWidths[i] >= 5 for
\* every column, and there is a width for every column; minWidths[i] may
\* exceed maxWidths[i], the column is then drawn minWidths[i] wide.
C6_WidthsBounded ==
    t.widthsChecked =>
        /\ Len(t.maxWidths) = Len(t.minWidths)
        /\ \A i \in 1..Len(t.maxWidths) :
            /\ t.minWidths[i] >= 0
            /\ t.maxWidths[i] >= MinMaxWidth
            /\ M(t, i) >= t.minWidths[i]

C6_Witness ==
    /\ Alive /\ t.widthsChecked /\ accepted # <<>>
    /\ \E i \in 1..Len(t.maxWidths) : t.maxWidths[i] < t.minWidths[i]

\* C7: wrapping never panics with "attempted to cut character".
C7_NeverCutsCharacter == fatal # PanicCut


\* the rows of the inputs whose number of values is not the table's
Mismatched == {row \in RowInputs : Len(row) # t.nColumns}

\* the number of columns is fixed, by a header or by the first row
ColumnsFixed == t.hasHeader \/ ~t.columnsNil

\* what the rejection of a row is: the column-number error, the buffered
\* rows kept and nothing written, whether the table is buffering, at the
\* threshold or streaming
C8_Rejects(r) ==
    /\ r.err = ErrUnmatchedColumnNumber
    /\ r.fatal = NoPanic
    /\ r.out = <<>> /\ r.wrote = <<>>
    /\ r.tb.rows = t.rows
    /\ r.tb.nColumns = t.nColumns
    /\ r.tb.bufRowsDumped = t.bufRowsDumped

\* C8: an AddRow whose number of values differs from the fixed number of
\* columns is rejected with the column-number error and changes neither rows
\* nor sink.
C8_MismatchRejected ==
    (Alive /\ ColumnsFixed /\ ~(t.hasWriter /\ t.flushed)) =>
        \A row \in Mismatched, poolHit \in BOOLEAN : C8_Rejects(AddRow(t, row, poolHit))

C8_Witness ==
    /\ Alive /\ ColumnsFixed /\ t.bufRowsDumped /\ ~t.flushed
    /\ \E row \in Mismatched : AddRow(t, row, FALSE).err = ErrUnmatchedColumnNumber

\* C9: once a row has been accepted, Header and HeaderWithFormat return the
\* header-after-data error and leave the table as it is; before, they
\* succeed and set the columns.
C9_HeaderAfterData ==
    Alive =>
        /\ \A h \in HeaderInputs :
             LET r == Header(t, h)
             IN  IF accepted # <<>>
                 THEN r.err = ErrSetHeaderAfterDataAdded /\ r.tb = t
                 ELSE r.err = Nil /\ r.tb.hasHeader /\ r.tb.nColumns = Len(h)
        /\ \A h \in FormatInputs :
             LET r == HeaderWithFormat(t, h)
             IN  IF accepted # <<>>
                 THEN r.err = ErrSetHeaderAfterDataAdded /\ r.tb = t
                 ELSE r.err = Nil /\ r.tb.hasHeader /\ r.tb.columns = h

C9_Witness ==
    /\ Alive /\ accepted # <<>> /\ t.hasHeader /\ t.bufRowsDumped
    /\ \E h \in FormatInputs : HeaderWithFormat(t, h).err = ErrSetHeaderAfterDataAdded

\* C10: after Flush has returned, every AddRow returns the
\* AddRow-after-Flush error; the row is neither buffered nor written.
C10_AddRowAfterFlush ==
    (Alive /\ nCalls.flushes > 0) =>
        \A row \in RowInputs, poolHit \in BOOLEAN :
            AddRow(t, row, poolHit) =
                [tb |-> t, out |-> <<>>, err |-> ErrAddRowAfterFlush,
                 fatal |-> NoPanic, wrote |-> <<>>]

C10_Witness ==
    /\ Alive /\ nCalls.flushes > 0 /\ accepted # <<>> /\ Len(accepted) < MaxRows
    /\ \E row \in RowInputs : AddRow(t, row, FALSE).err = ErrAddRowAfterFlush


\* the fields of the table a rejected call must leave alone
C11_Frame(tb) ==
    <<tb.columns, tb.columnsNil, tb.nColumns, tb.rows, tb.dataAdded, tb.hasHeader,
      tb.minWidths, tb.maxWidths, tb.widthsChecked, tb.bufRowsDumped, tb.flushed>>

\* an AddRow that returned an error has changed nothing and written nothing
C11_Untouched(r) ==
    (r.fatal = NoPanic /\ r.err # Nil) =>
        (C11_Frame(r.tb) = C11_Frame(t) /\ r.out = <<>> /\ r.wrote = <<>>)

\* C11: every AddRow that returns an error (column number, conversion, add
\* after Flush) leaves columns, nColumns, rows, dataAdded, the resolved
\* widths and the emission flags as they were and writes nothing; a rejected
\* first row does not fix the number of columns.
C11_RejectedAddRowKeepsState ==
    Alive => \A row \in RowInputs, poolHit \in PoolChoices(t) :
                 C11_Untouched(AddRow(t, row, poolHit))


\* C12: once a writer is attached, another Writer call returns
\* ErrWriterRepeatedlySet and leaves the writer, bufRows and the buffered
\* rows (the whole table) as they were.
C12_WriterOnce ==
    (Alive /\ t.hasWriter) =>
        \A k \in BufRowsInputs : Writer(t, k) = [tb |-> t, err |-> ErrWriterRepeatedlySet]

C12_Witness ==
    /\ Alive /\ t.hasWriter /\ t.bufRows = 2 /\ Len(t.rows) = 1 /\ ~t.flushed
    /\ Writer(t, 1).err = ErrWriterRepeatedlySet


\* no MinWidth or MaxWidth is in force for column i
C13_Unconstrained(tb, i) ==
    /\ tb.minWidth = 0 /\ tb.maxWidth = 0
    /\ tb.columns[i].MinWidth = 0 /\ tb.columns[i].MaxWidth = 0

\* the largest display width among the header and the cells of column i
C13_DisplayMax(tb, i) == MaxOf({StringWidth(c) : c \in ColumnCells(tb, i)}, 0)

\* C13: widths are resolved in display cells: a column without MinWidth and
\* MaxWidth is max(5, the largest display width of its header and cells)
\* wide.
C13_DisplayCellWidths ==
    Alive =>
        \A i \in 1..t.nColumns :
            (C13_Unconstrained(t, i) /\ ColumnCells(t, i) # {})
            => M(checkWidths(t), i) = Max(MinMaxWidth, C13_DisplayMax(t, i))


(***************************************************************************)
(* formatRow on its own.  A second specification feeds formatRow one cell: *)
(* a table with one column, whose width comes from its header, in wrap or  *)
(* in clip mode; accepted holds the row whose cell the caller builds rune  *)
(* by rune, emitted the printed lines formatRow makes of it.               *)
(***************************************************************************)
\* the longest cell, in runes
MaxCell == 6

\* the runes of a cell: a letter, the delimiter, a wide rune
RuneInputs == {"a", " ", "W", "\n"}

\* the width of the column
CellWidthInputs == {5, 6}

\* the clip marks: none (wrap mode), a short one, one wider than 5 cells
CellMarkInputs == {<<>>, <<".", ".">>, <<".", ".", ".", ".", ".", ".">>, <<"W", "W">>}

\* a table of one column that is w wide
CellTable(w, mark) ==
    IF mark = <<>> THEN checkWidths(Header(New, <<Repeat(<<"a">>, w)>>).tb)
    ELSE ClipCell(checkWidths(Header(New, <<Repeat(<<"a">>, w)>>).tb), mark)

CellInit ==
    /\ t \in {CellTable(w, mark) : w \in CellWidthInputs, mark \in CellMarkInputs}
    /\ sink = <<>>
    /\ fatal = NoPanic
    /\ accepted = << <<<<>>>> >>
    /\ emitted = <<>>
    /\ nCalls = [calls |-> 0, flushes |-> 0, preWriter |-> 0]

\* the caller adds a rune to the cell
CellRune ==
    /\ fatal = NoPanic /\ emitted = <<>>
    /\ Len(accepted[1][1]) < MaxCell
    /\ \E r \in RuneInputs : accepted' = << <<Append(accepted[1][1], r)>> >>
    /\ UNCHANGED <<t, sink, fatal, emitted, nCalls>>

\* the printed lines of the row: t.wrappedRow, or the row itself
Printed(fr, row) ==
    /\ t' = fr.tb
    /\ fatal' = fr.fatal
    /\ emitted' = IF fr.fatal # NoPanic THEN <<>>
                  ELSE IF fr.wrapped THEN fr.wrappedRow ELSE <<row>>

formatRowCall ==
    /\ fatal = NoPanic /\ emitted = <<>>
    /\ accepted[1][1] # <<>>
    /\ Printed(formatRow(t, accepted[1], FALSE), accepted[1])
    /\ UNCHANGED <<sink, accepted, nCalls>>

CellNext == CellRune \/ formatRowCall

CellSpec == CellInit /\ [][CellNext]_vars


\* the cell formatRow was given and the display lines it has made of it
CellGiven == accepted[1][1]

CellLines == [j \in 1..Len(emitted) |-> emitted[j][1]]

\* the cell was wrapped: the call returned and the cell is longer than the
\* column
CellWrapped ==
    /\ fatal = NoPanic /\ emitted # <<>>
    /\ ~t.clipCell /\ len(CellGiven) > t.maxWidths[1]

\* the display lines put one after the other
RECURSIVE C14_Rejoin(_)
C14_Rejoin(lines) == IF lines = <<>> THEN <<>> ELSE Head(lines) \o C14_Rejoin(Tail(lines))

\* C14: the display lines of a wrapped cell, put together in order (a
\* delimiter at a break ends the line before it), are the cell; there are at
\* least two of them and none is empty.
C14_WrapRoundTrip ==
    CellWrapped =>
        /\ C14_Rejoin(CellLines) = CellGiven
        /\ Len(CellLines) >= 2
        /\ \A j \in 1..Len(CellLines) : CellLines[j] # <<>>

C14_Witness ==
    /\ CellWrapped
    /\ Len(CellLines) = 2
    /\ \E j \in 1..Len(CellGiven) : CellGiven[j] = "W"
    /\ CellLines[1][Len(CellLines[1])] = " "


\* the last n elements of s
LastOf(s, n) == IF n >= Len(s) THEN s ELSE SubSeq(s, Len(s) - n + 1, Len(s))

\* what clip mode is said to make of a cell in a column of w display cells
\* with the marker mark
C15_Clip(cell, w, mark, lines) ==
    /\ Len(lines) = 1
    /\ StringWidth(cell) <= w => lines[1] = cell
    /\ (StringWidth(cell) > w /\ StringWidth(mark) <= w) =>
           /\ StringWidth(lines[1]) = w
           /\ LastOf(lines[1], Len(mark)) = mark
    /\ (StringWidth(cell) > w /\ StringWidth(mark) > w) =>
           lines[1] = TruncPrefix(cell, w)

\* C15: in clip mode a cell yields one display line: the cell when its display
\* width is at most the column width, otherwise a truncation of exactly the
\* column width that ends with the configured marker, or a hard truncation
\* without the marker when the marker is wider than the column.
C15_ClipExactWidth ==
    [][(fatal' = NoPanic /\ t.clipCell /\ emitted = <<>> /\ emitted' # <<>>) =>
           C15_Clip(CellGiven, t.maxWidths[1], t.clipMark,
                    [j \in 1..Len(emitted') |-> emitted'[j][1]])]_vars


\* C16: the emission state only moves forward.  A table whose buffered rows
\* are dumped stays dumped and buffers no further row; a flushed table stays
\* flushed and takes no further row; rows reach the sink before Flush only
\* through the dump; and a table without a writer is never dumped or flushed
\* and its AddRow calls write nothing.
C16_EmissionForward ==
    [][/\ t.bufRowsDumped => (t'.bufRowsDumped /\ t'.rows = t.rows)
       /\ t.flushed => (t'.flushed /\ t'.rows = t.rows /\ accepted' = accepted)
       /\ (fatal' = NoPanic /\ sink' # <<>> /\ ~t'.flushed) => t'.bufRowsDumped
       /\ (fatal' = NoPanic /\ ~t'.hasWriter) =>
              /\ ~t'.bufRowsDumped /\ ~t'.flushed
              /\ sink' = <<>> /\ emitted' = <<>>]_vars

C16_Witness ==
    /\ Alive /\ t.hasWriter /\ t.bufRowsDumped /\ t.flushed
    /\ t.bufRows = 1 /\ Len(accepted) = 3 /\ emitted = accepted
    /\ nCalls.flushes = 2


\* C17: with a writer attached the table holds at most bufRows buffered rows.
C17_AtMostBufRows == (Alive /\ t.hasWriter) => Len(t.rows) <= t.bufRows


\* C18: from every reachable state a Flush call returns: it does not panic.
C18_FlushReturns ==
    Alive => \A poolHit \in PoolChoices(t) : Flush(t, poolHit).fatal = NoPanic


\* the buffered rows and the column configuration have nColumns entries
C19_Shape(tb) ==
    /\ \A r \in 1..Len(tb.rows) : Len(tb.rows[r]) = tb.nColumns
    /\ Len(tb.columns) = tb.nColumns

\* C19: every buffered row has nColumns cells, the column configuration has
\* nColumns entries, and nColumns does not change once a row was accepted.
C19_ColumnCountFixed ==
    /\ [](Alive => C19_Shape(t))
    /\ [][(accepted # <<>> /\ fatal' = NoPanic) => t'.nColumns = t.nColumns]_vars


C19_Witness ==
    /\ Alive /\ t.hasHeader /\ t.nColumns = 2 /\ Len(t.rows) = 2
    /\ Len(accepted) = 2 /\ t.hasWriter


\* the kind of the printed line that starts at s[i]: a rule, the rule below
\* the header, or a line of a header or data row
KindRule == "rule"
KindBelow == "below"
KindRow == "row"

LineKind(s, i) ==
    IF s[i] # "+" THEN KindRow
    ELSE IF i < Len(s) /\ s[i + 1] = "=" THEN KindBelow
    ELSE KindRule

\* the positions of s at which a printed line starts
LineStarts(s) == {i \in 1..Len(s) : i = 1 \/ s[i - 1] = "\n"}

\* the kinds of the printed lines of s, in order
RawKinds(s, starts) ==
    [j \in 1..Cardinality(starts) |->
        LineKind(s, CHOOSE i \in starts : Cardinality({k \in starts : k < i}) = j - 1)]

\* a rule of the style, if visible
RuleKind(ls, kind) == IF Visible(ls) THEN <<kind>> ELSE <<>>

\* n data rows with a rule between each two
RECURSIVE RowKinds(_, _)
RowKinds(style, n) ==
    IF n = 0 THEN <<>>
    ELSE IF n = 1 THEN <<KindRow>>
    ELSE RowKinds(style, n - 1) \o RuleKind(style.LineBetweenRows, KindRule) \o <<KindRow>>

\* consecutive row lines counting once
RECURSIVE Squeeze(_)
Squeeze(ks) ==
    IF Len(ks) < 2 THEN ks
    ELSE IF ks[1] = KindRow /\ ks[2] = KindRow THEN Squeeze(Tail(ks))
    ELSE <<ks[1]>> \o Squeeze(Tail(ks))

\* the kinds of the lines of s, the lines of one wrapped row counting once
Kinds(s) == Squeeze(RawKinds(s, LineStarts(s)))

\* the kinds of the lines of a table with n data rows
TableKinds(style, hasHeader, n) ==
    Squeeze(RuleKind(style.LineTop, KindRule)
            \o (IF hasHeader THEN <<KindRow>> \o RuleKind(style.LineBelowHeader, KindBelow)
                ELSE <<>>)
            \o RowKinds(style, n)
            \o RuleKind(style.LineBottom, KindRule))

C20_RenderKinds(tb, r) ==
    r.fatal = NoPanic =>
        Kinds(r.out) = TableKinds(UseStyle(tb, NilStyle), tb.hasHeader, Len(tb.rows))

\* the first Flush of a table with a writer
C20_FirstFlush ==
    /\ nCalls'.flushes = nCalls.flushes + 1 /\ ~t.flushed
    /\ fatal' = NoPanic /\ t.hasWriter

\* C20: the lines of Render and the lines in the sink after the rows and one
\* Flush are of the same kinds in the same order: top rule, header and the
\* rule below it, the rows with one rule between each two, bottom rule last;
\* and Flush after the dump writes the bottom rule only.
C20_SameLineKinds ==
    /\ [](Alive => \A poolHit \in PoolChoices(t) :
                      C20_RenderKinds(t, Render(t, NilStyle, poolHit)))
    /\ [][C20_FirstFlush =>
            /\ Kinds(sink') = TableKinds(UseStyle(t, NilStyle), t.hasHeader,
                                         Len(accepted) - nCalls.preWriter)
            /\ t.bufRowsDumped =>
                   /\ SubSeq(sink', 1, Len(sink)) = sink
                   /\ Kinds(SubSeq(sink', Len(sink) + 1, Len(sink')))
                          = RuleKind(UseStyle(t, NilStyle).LineBottom, KindRule)]_vars


C20_Witness ==
    /\ Alive /\ t.flushed /\ t.bufRowsDumped /\ t.hasHeader /\ WriterFirst
    /\ t.bufRows = 1 /\ Len(accepted) = 3 /\ nCalls.flushes = 1
    /\ Kinds(sink) = <<KindRule, KindRow, KindBelow, KindRow, KindRule, KindRow,
                       KindRule, KindRow, KindRule>>


\* the call returned in wrap mode
CellWrapMode == fatal = NoPanic /\ emitted # <<>> /\ ~t.clipCell

\* C21: in wrap mode a newline in a cell is a forced break: no display line
\* has text after a newline, whatever the column width.
C21_NewlineBreaks ==
    CellWrapMode =>
        \A j \in 1..Len(CellLines) :
            \A p \in 1..(Len(CellLines[j]) - 1) : CellLines[j][p] # "\n"


\* the delimiter formatRow wraps at (lines 1240-1242)
CellDelimiter == IF t.wrapDelimiter = "" THEN " " ELSE t.wrapDelimiter

\* every run of the cell without the delimiter d is narrower than w
RunsNarrower(cell, d, w) ==
    \A i \in 1..Len(cell) : \A j \in i..Len(cell) :
        (\A k \in i..j : cell[k] # d) => StringWidth(SubSeq(cell, i, j)) < w

\* every display line but the last ends with the delimiter d
BreaksAfter(lines, d) ==
    \A j \in 1..(Len(lines) - 1) : lines[j][Len(lines[j])] = d

\* C22: when every delimiter-free run of a wrapped cell is narrower than the
\* column, every break falls immediately after a delimiter.
C22_BreaksAtDelimiter ==
    (CellWrapped /\ RunsNarrower(CellGiven, CellDelimiter, t.maxWidths[1]))
        => BreaksAfter(CellLines, CellDelimiter)


\* the least length among the header and the cells of column i, as
\* checkWidths measures it; math.MaxInt when the column has none
ContentMin(tb, i) ==
    IF ColumnCells(tb, i) = {} THEN MaxInt
    ELSE CHOOSE m \in {len(c) : c \in ColumnCells(tb, i)} :
             \A c \in ColumnCells(tb, i) : m <= len(c)

\* the precedence of the minimum widths in the resolved table r of tb
MinPrecedence(tb, r) ==
    \A i \in 1..tb.nColumns :
        /\ tb.minWidth > 0 => r.minWidths[i] = tb.minWidth
        /\ (tb.minWidth = 0 /\ tb.columns[i].MinWidth > ContentMin(tb, i)) =>
               r.minWidths[i] = tb.columns[i].MinWidth
        /\ (tb.minWidth = 0 /\ tb.columns[i].MinWidth <= ContentMin(tb, i)) =>
               r.minWidths[i] = ContentMin(tb, i)

\* the sum of the widths the columns from i on are drawn with
RECURSIVE DrawnFrom(_, _, _)
DrawnFrom(tb, i, lenPad2) ==
    IF i > Len(tb.maxWidths) THEN 0
    ELSE Max(tb.maxWidths[i], tb.minWidths[i]) + lenPad2 + DrawnFrom(tb, i + 1, lenPad2)

\* the display width of a printed line of the table
LineWidth(tb, style) ==
    len(style.DataRow.Begin) + len(style.DataRow.End)
        + (IF Len(tb.maxWidths) > 1 THEN (Len(tb.maxWidths) - 1) * len(style.DataRow.Sep)
           ELSE 0)
        + DrawnFrom(tb, 1, 2 * len(style.Padding))

\* the position of the newline that ends the line starting at s[i]
LineEnd(s, i) == CHOOSE e \in i..Len(s) : s[e] = "\n" /\ \A k \in i..(e - 1) : s[k] # "\n"

\* every printed line of s is w display cells wide
LinesWide(s, w) ==
    \A i \in LineStarts(s) : StringWidth(SubSeq(s, i, LineEnd(s, i))) = w

\* the scratch slice the lines are joined from has one entry per column
SliceFits(tb) == Len(tb.slice) = tb.nColumns

C23_RenderWidths(r, style) ==
    (r.fatal = NoPanic /\ SliceFits(r.tb)) => LinesWide(r.out, LineWidth(r.tb, style))

\* C23: the column MinWidth raises the resolved minimum above the content
\* minimum, a global MinWidth > 0 then replaces it in every column, and every
\* line, of Render and of the streaming path, draws each column with the
\* larger of its resolved maximum and resolved minimum (the lines being joined
\* from a scratch slice of nColumns entries).
C23_MinWidthPrecedence ==
    /\ [](Alive => /\ MinPrecedence(t, checkWidths(t))
                   /\ \A poolHit \in PoolChoices(t) :
                          C23_RenderWidths(Render(t, NilStyle, poolHit),
                                           UseStyle(t, NilStyle)))
    /\ [][(fatal' = NoPanic /\ SliceFits(t') /\ SubSeq(sink', 1, Len(sink)) = sink) =>
             LinesWide(SubSeq(sink', Len(sink) + 1, Len(sink')),
                       LineWidth(t', UseStyle(t, NilStyle)))]_vars


C23_Witness ==
    /\ Alive /\ t.hasWriter /\ t.bufRowsDumped /\ sink # <<>>
    /\ t.minWidth = 7 /\ t.nColumns = 2 /\ t.columns[2].MinWidth = 8
    /\ t.minWidths = <<7, 7>> /\ SliceFits(t)


\* the widest header or cell of column i as checkWidths measures it, and the
\* MaxWidth thresholds that are set
MaxBounds(tb, i) ==
    {MaxOf({len(c) : c \in ColumnCells(tb, i)}, 0)}
        \cup (IF tb.columns[i].MaxWidth > 0 THEN {tb.columns[i].MaxWidth} ELSE {})
        \cup (IF tb.maxWidth > 0 THEN {tb.maxWidth} ELSE {})

MaxResolved(tb, r) ==
    \A i \in 1..tb.nColumns :
        /\ r.maxWidths[i] = Max(MinMaxWidth, MinOf(MaxBounds(tb, i), 0))
        /\ tb.columns[i].MaxWidth > 0 =>
               r.maxWidths[i] <= Max(MinMaxWidth, tb.columns[i].MaxWidth)

MaxText == 4

TextRuneInputs == {"a", "W"}

\* 0: no alignment set
AlignInputs == {0, AlignLeft, AlignCenter, AlignRight}

PadTable(w, colAlign, globalAlign) ==
    checkWidths(HeaderWithFormat(IF globalAlign = 0 THEN New ELSE Align(New, globalAlign),
                                 <<Column(Repeat(<<"a">>, w), colAlign, 0, 0)>>).tb)

PadInit ==
    /\ t \in {PadTable(w, ca, ga) : w \in CellWidthInputs, ca \in AlignInputs,
                                    ga \in AlignInputs}
    /\ sink = <<>>
    /\ fatal = NoPanic
    /\ accepted = << <<<<>>>> >>
    /\ emitted = <<>>
    /\ nCalls = [calls |-> 0, flushes |-> 0, preWriter |-> 0]

TextRune ==
    /\ fatal = NoPanic /\ emitted = <<>>
    /\ Len(accepted[1][1]) < MaxText
    /\ \E r \in TextRuneInputs : accepted' = << <<Append(accepted[1][1], r)>> >>
    /\ UNCHANGED <<t, sink, fatal, emitted, nCalls>>

Assembled(fc) ==
    /\ fatal' = fc.fatal
    /\ emitted' = IF fc.fatal # NoPanic THEN <<>> ELSE << <<fc.s>> >>

formatCellCall ==
    /\ fatal = NoPanic /\ emitted = <<>>
    /\ Assembled(formatCell(t, accepted[1][1], M(t, 1), t.columns[1].Align))
    /\ UNCHANGED <<t, sink, accepted, nCalls>>

PadNext == TextRune \/ formatCellCall

PadSpec == PadInit /\ [][PadNext]_vars

\* the alignment in effect: the global one when set, else the column's, else
\* left
EffectiveAlign(tb, i) ==
    IF tb.align \in {AlignLeft, AlignCenter, AlignRight} THEN tb.align
    ELSE IF tb.columns[i].Align \in {AlignLeft, AlignCenter, AlignRight}
    THEN tb.columns[i].Align
    ELSE AlignLeft

\* the spaces before the text of a cell padded by pad
PadBefore(a, pad) ==
    IF a = AlignRight THEN pad ELSE IF a = AlignCenter THEN pad \div 2 ELSE 0

Spaces(n) == [k \in 1..n |-> " "]

C25_Placed(text, out, w, a) ==
    /\ StringWidth(out) = w
    /\ out = Spaces(PadBefore(a, w - StringWidth(text))) \o text
               \o Spaces(w - StringWidth(text) - PadBefore(a, w - StringWidth(text)))

\* C25: an assembled cell is exactly as wide as its column is drawn, the
\* padding placed by the alignment in effect: all after the text for left,
\* all before for right, floor(pad/2) before and the rest after for center.
C25_CellPadded ==
    (fatal = NoPanic /\ emitted # <<>>) =>
        C25_Placed(accepted[1][1], emitted[1][1], M(t, 1), EffectiveAlign(t, 1))

C25_Witness ==
    /\ fatal = NoPanic /\ emitted # <<>>
    /\ t.align = AlignCenter /\ t.columns[1].Align = AlignRight
    /\ accepted[1][1] = <<"W", "a">> /\ M(t, 1) = 6
    /\ emitted[1][1] = <<" ", "W", "a", " ", " ">>


\* C26: formatCell never panics with "wrapping/clipping method error": no
\* line is assembled in a column narrower than its display width.
C26_NoCellPanic == fatal # PanicCell


\* C27: a Flush call on a table that is flushed already writes nothing to the
\* sink.
C27_SecondFlushSilent ==
    [][(nCalls'.flushes = nCalls.flushes + 1 /\ t.flushed /\ fatal' = NoPanic)
           => sink' = sink]_vars


\* the second Render r2 returns what the first, r1, returned
C28_Same(r1, r2) == r2.fatal = NoPanic /\ r2.out = r1.out

\* Render r1 of tb left the clip mark, the rows and the columns alone, and a
\* second Render returns the same bytes
C28_Again(tb, r1) ==
    r1.fatal = NoPanic =>
        /\ r1.tb.clipMark = tb.clipMark
        /\ r1.tb.rows = tb.rows
        /\ r1.tb.columns = tb.columns /\ r1.tb.nColumns = tb.nColumns
        /\ \A poolHit \in PoolChoices(r1.tb) :
               C28_Same(r1, Render(r1.tb, NilStyle, poolHit))

\* C28: two consecutive Render calls return the same bytes, and Render does
\* not change the clip mark, the rows or the column configuration.
C28_RenderRepeatable ==
    Alive => \A poolHit \in PoolChoices(t) : C28_Again(t, Render(t, NilStyle, poolHit))


\* C29: the scratch slice, t.rotate and the pooled row buffers have nColumns
\* entries whenever Render, AddRow or Flush index them: no call ends in an
\* out-of-range access.
C29_ScratchInRange == fatal # PanicIndex


\* C30: after width resolution every minWidths[i] is at most the larger of
\* the widest content of the column and the configured minimum widths, never
\* the initial math.MaxInt.
C30_MinWidthsFinite ==
    Alive => \A i \in 1..t.nColumns :
        /\ checkWidths(t).minWidths[i] # MaxInt
        /\ checkWidths(t).minWidths[i]
               <= Max(MaxOf({len(c) : c \in ColumnCells(t, i)}, 0),
                      Max(t.minWidth, t.columns[i].MinWidth))

====
